---- MODULE Spec2Model ----
(***************************************************************************)
(* StockMaster UG inventory API (src/main.py): the store behind the        *)
(* /sync endpoint and the handler itself.                                  *)
(*                                                                         *)
(* The store is the eight inventory tables init_db creates.  The seven     *)
(* list tables have a primary key on id alone, so an id is held by at most *)
(* one row whoever owns it; settings is keyed by user_id.  The handler     *)
(* runs its statements on a connection without opening a transaction, so   *)
(* every statement commits on its own and an exception leaves the earlier  *)
(* statements' writes in place.                                            *)
(*                                                                         *)
(* Values.  None is Null (0).  A naive datetime is a positive integer t;   *)
(* a timezone-aware datetime with the same wall-clock reading is -t.       *)
(* Every other column holds a small positive integer.                      *)
(***************************************************************************)
EXTENDS Integers, Sequences, FiniteSets, TLC

\* ------------------------------------------------------------ bounds
NumUsers == 2
MaxId == 2
MaxVal == 2
MaxStamp == 2
MaxRequests == 2
MaxAttempts == 3
MaxBulkRequests == 3
MaxCalls == 2
MaxItems == 2
MaxEmails == 3

\* ------------------------------------------------- program constants
ActivityLimit == 100
HTTP_200_OK == 200
HTTP_400_BAD_REQUEST == 400
HTTP_404_NOT_FOUND == 404
HTTP_409_CONFLICT == 409
HTTP_422_UNPROCESSABLE_ENTITY == 422
HTTP_500_INTERNAL_SERVER_ERROR == 500

Null == 0

Users == 1..NumUsers
Ids == 1..MaxId
Vals == 1..MaxVal
Calls == 1..MaxCalls
\* Datetimes a client sends: naive ones, and one timezone-aware one.
Dates == (1..MaxStamp) \cup {0 - MaxStamp}

ListKinds ==
    {"products", "categories", "suppliers", "sales", "purchases",
     "adjustments", "activities"}

\* db, now: the store and the server's clock.  req, resp: the last request
\* and its response.  attempt: the store before and after the last request
\* a client may send again, and that request's server time.  mark: per
\* tenant, the last_sync_time a device of the tenant received last and
\* keeps for its next sync.  seq: per list table, the next value of the
\* sequence behind its SERIAL id.  calls: the sync requests in flight, each
\* with its position in the handler and its local variables.  users: the
\* users table, the email of each row, in the order of the ids.
VARIABLES db, now, req, resp, attempt, mark, seq, calls, users

vars == <<db, now, req, resp, attempt, mark, seq, calls, users>>

\* ------------------------------------------------- request models
Product(i, v, pp, ca) ==
    [id |-> i, user_id |-> Null, name |-> v, category_id |-> v,
     description |-> v, purchase_price |-> pp, selling_price |-> v,
     stock |-> v, reorder_level |-> v, unit |-> v, barcode |-> v,
     created_at |-> ca]

Category(i, v) ==
    [id |-> i, user_id |-> Null, name |-> v, description |-> v]

Supplier(i, v) ==
    [id |-> i, user_id |-> Null, name |-> v, contact_person |-> v,
     phone |-> v, email |-> v, address |-> v, products |-> <<v>>,
     payment_terms |-> v]

SaleItem(v) ==
    [product_id |-> v, product_name |-> v, quantity |-> v, price |-> v]

Sale(i, v, d) ==
    [id |-> i, user_id |-> Null, date |-> d, invoice_number |-> v,
     customer |-> v, items |-> <<SaleItem(v)>>, payment_method |-> v,
     notes |-> v]

PurchaseItem(v) ==
    [product_id |-> v, product_name |-> v, quantity |-> v, price |-> v]

Purchase(i, v, d) ==
    [id |-> i, user_id |-> Null, date |-> d, reference_number |-> v,
     supplier_id |-> v, items |-> <<PurchaseItem(v)>>, payment_method |-> v,
     notes |-> v]

Adjustment(i, v, d) ==
    [id |-> i, user_id |-> Null, date |-> d, product_id |-> v, type |-> v,
     quantity |-> v, reason |-> v, username |-> v]

Activity(i, v, d) ==
    [id |-> i, user_id |-> Null, date |-> d, activity |-> v, username |-> v,
     details |-> v]

Settings(v) ==
    [user_id |-> Null, business_name |-> v, currency |-> v, tax_rate |-> v,
     low_stock_threshold |-> v, invoice_prefix |-> v, purchase_prefix |-> v]

\* SyncData with every list empty; settings is <<>> for None, <<s>> for s.
SyncData(w) ==
    [last_sync_time |-> w, products |-> <<>>, categories |-> <<>>,
     suppliers |-> <<>>, sales |-> <<>>, purchases |-> <<>>,
     adjustments |-> <<>>, activities |-> <<>>, settings |-> <<>>]

\* --------------------------------------------------- validation
\* A value no field type accepts (a mapping where a number, a text or a
\* datetime is expected).
WrongType == 0 - (MaxStamp + 1)

\* The fields a request model declares without a default.
Required(kind) ==
    CASE kind = "products" -> {"id", "name", "stock", "unit"}
      [] kind = "categories" -> {"id", "name"}
      [] kind = "suppliers" -> {"id", "name", "phone"}
      [] kind = "sales" -> {"id", "date", "invoice_number", "payment_method"}
      [] kind = "purchases" ->
            {"id", "date", "reference_number", "supplier_id",
             "payment_method"}
      [] kind = "adjustments" ->
            {"id", "date", "product_id", "type", "quantity", "reason"}
      [] kind = "activities" -> {"id", "date", "activity", "details"}
      [] kind = "settings" ->
            {"business_name", "currency", "tax_rate", "low_stock_threshold",
             "invoice_prefix", "purchase_prefix"}
      [] kind = "items" -> {"product_id", "product_name", "quantity", "price"}

\* The fields of a record that hold one value (not a list).
Scalars(r) == (DOMAIN r) \ {"items", "products"}

\* One model accepts r: every required field is present and every field
\* given has a value of its type.
ModelAccepts(kind, r) ==
    /\ \A f \in Required(kind) : r[f] # Null
    /\ \A f \in Scalars(r) : r[f] # WrongType
    /\ "items" \in DOMAIN r =>
          \A n \in DOMAIN r.items : \A f \in Required("items") :
              r.items[n][f] \notin {Null, WrongType}

\* A handler that takes the payload as it comes.
ValidatesAnything(data) == TRUE

\* SyncData(**data) raises no ValidationError.
Validates(data) ==
    /\ data.last_sync_time # WrongType
    /\ \A kind \in ListKinds : \A n \in DOMAIN data[kind] :
          ModelAccepts(kind, data[kind][n])
    /\ \A n \in DOMAIN data.settings :
          ModelAccepts("settings", data.settings[n])

\* ------------------------------------------------------ helpers
make_timezone_naive(dt) ==
    IF dt = Null THEN Null
    ELSE IF dt < 0 THEN 0 - dt
    ELSE dt

\* json.dumps([item.dict() for item in items]): the JSON text of the list.
json_dumps(items) == [str |-> items]

\* The list a JSON text stands for.
json_loads(text) == text.str

Has(tbl, i) == i \in DOMAIN tbl

Put(tbl, i, row) ==
    [j \in (DOMAIN tbl) \cup {i} |-> IF j = i THEN row ELSE tbl[j]]

\* The rows of a table, whoever owns them (no WHERE clause).
OwnedByAnyone(tbl, t) == {tbl[i] : i \in DOMAIN tbl}

\* The rows of a table a tenant owns (WHERE user_id = $1).
Owned(tbl, t) == {tbl[i] : i \in {j \in DOMAIN tbl : tbl[j].user_id = t}}

\* SELECT * FROM <table> WHERE id = $1 AND user_id = $2 finds a row.
Existing(tbl, i, t) == Has(tbl, i) /\ tbl[i].user_id = t

NoError == "none"
UniqueViolationError == "UniqueViolationError"
NotNullViolationError == "NotNullViolationError"
TypeError == "TypeError"
DataError == "DataError"

Done(d) == [db |-> d, error |-> NoError]
Raise(d, e) == [db |-> d, error |-> e]

\* The tables as init_db leaves them.
EmptyDb ==
    [products |-> <<>>, categories |-> <<>>, suppliers |-> <<>>,
     sales |-> <<>>, purchases |-> <<>>, adjustments |-> <<>>,
     activities |-> <<>>, settings |-> <<>>]

\* ---------------------------------------------- the merge statements
\* Each operator is one iteration of a `for` loop of sync: the existence
\* check and the UPDATE or INSERT it chooses, for tenant t on store d.

\* The category merge with an INSERT that binds category.user_id, which
\* sync sets to the caller's id only when the payload leaves it out.
MergeCategoryTrustsPayload(d, t, c) ==
    IF Existing(d.categories, c.id, t)
    THEN Done([d EXCEPT !.categories[c.id] =
                  [@ EXCEPT !.name = c.name, !.description = c.description]])
    ELSE IF Has(d.categories, c.id)
    THEN Raise(d, UniqueViolationError)
    ELSE Done([d EXCEPT !.categories = Put(@, c.id,
                  [id |-> c.id,
                   user_id |-> IF c.user_id # Null THEN c.user_id ELSE t,
                   name |-> c.name, description |-> c.description])])

\* categories: SELECT by (id, user_id), then UPDATE or INSERT.
MergeCategory(d, t, c) ==
    IF Existing(d.categories, c.id, t)
    THEN Done([d EXCEPT !.categories[c.id] =
                  [@ EXCEPT !.name = c.name, !.description = c.description]])
    ELSE IF Has(d.categories, c.id)
    THEN Raise(d, UniqueViolationError)
    ELSE Done([d EXCEPT !.categories = Put(@, c.id,
                  [id |-> c.id, user_id |-> t, name |-> c.name,
                   description |-> c.description])])

\* activities: INSERT ... ON CONFLICT (id) DO UPDATE SET date, activity,
\* details.  The conflict target is id alone; the update keeps the row's
\* user_id and username.
MergeActivity(d, t, a) ==
    IF Has(d.activities, a.id)
    THEN Done([d EXCEPT !.activities[a.id] =
                  [@ EXCEPT !.date = make_timezone_naive(a.date),
                            !.activity = a.activity,
                            !.details = a.details]])
    ELSE Done([d EXCEPT !.activities = Put(@, a.id,
                  [id |-> a.id, user_id |-> t,
                   date |-> make_timezone_naive(a.date),
                   activity |-> a.activity, username |-> a.username,
                   details |-> a.details])])

\* The UPDATE of the product merge, adding the uploaded stock to the stored.
MergeProductAddsStock(d, t, p, server_time) ==
    IF Null \in {p.purchase_price, p.selling_price, p.reorder_level}
    THEN Raise(d, NotNullViolationError)
    ELSE IF Existing(d.products, p.id, t)
    THEN Done([d EXCEPT !.products[p.id] =
                  [@ EXCEPT !.name = p.name, !.category_id = p.category_id,
                            !.description = p.description,
                            !.purchase_price = p.purchase_price,
                            !.selling_price = p.selling_price,
                            !.stock = @ + p.stock,
                            !.reorder_level = p.reorder_level,
                            !.unit = p.unit, !.barcode = p.barcode]])
    ELSE IF Has(d.products, p.id)
    THEN Raise(d, UniqueViolationError)
    ELSE Done([d EXCEPT !.products = Put(@, p.id,
                  [id |-> p.id, user_id |-> t, name |-> p.name,
                   category_id |-> p.category_id,
                   description |-> p.description,
                   purchase_price |-> p.purchase_price,
                   selling_price |-> p.selling_price, stock |-> p.stock,
                   reorder_level |-> p.reorder_level, unit |-> p.unit,
                   barcode |-> p.barcode,
                   created_at |->
                       IF make_timezone_naive(p.created_at) # Null
                       THEN make_timezone_naive(p.created_at)
                       ELSE server_time])])

\* products: purchase_price, selling_price and reorder_level are Optional
\* in the request model and NOT NULL in the table; the constraint is
\* checked before the primary key.  created_at is written on INSERT only.
MergeProduct(d, t, p, server_time) ==
    IF Null \in {p.purchase_price, p.selling_price, p.reorder_level}
    THEN Raise(d, NotNullViolationError)
    ELSE IF Existing(d.products, p.id, t)
    THEN Done([d EXCEPT !.products[p.id] =
                  [@ EXCEPT !.name = p.name, !.category_id = p.category_id,
                            !.description = p.description,
                            !.purchase_price = p.purchase_price,
                            !.selling_price = p.selling_price,
                            !.stock = p.stock,
                            !.reorder_level = p.reorder_level,
                            !.unit = p.unit, !.barcode = p.barcode]])
    ELSE IF Has(d.products, p.id)
    THEN Raise(d, UniqueViolationError)
    ELSE Done([d EXCEPT !.products = Put(@, p.id,
                  [id |-> p.id, user_id |-> t, name |-> p.name,
                   category_id |-> p.category_id,
                   description |-> p.description,
                   purchase_price |-> p.purchase_price,
                   selling_price |-> p.selling_price, stock |-> p.stock,
                   reorder_level |-> p.reorder_level, unit |-> p.unit,
                   barcode |-> p.barcode,
                   created_at |->
                       IF make_timezone_naive(p.created_at) # Null
                       THEN make_timezone_naive(p.created_at)
                       ELSE server_time])])

MergeSupplier(d, t, s) ==
    IF Existing(d.suppliers, s.id, t)
    THEN Done([d EXCEPT !.suppliers[s.id] =
                  [@ EXCEPT !.name = s.name,
                            !.contact_person = s.contact_person,
                            !.phone = s.phone, !.email = s.email,
                            !.address = s.address, !.products = s.products,
                            !.payment_terms = s.payment_terms]])
    ELSE IF Has(d.suppliers, s.id)
    THEN Raise(d, UniqueViolationError)
    ELSE Done([d EXCEPT !.suppliers = Put(@, s.id,
                  [id |-> s.id, user_id |-> t, name |-> s.name,
                   contact_person |-> s.contact_person, phone |-> s.phone,
                   email |-> s.email, address |-> s.address,
                   products |-> s.products,
                   payment_terms |-> s.payment_terms])])

\* The UPDATE of the sale merge, appending the uploaded items to the stored
\* ones (items = items || $4).
MergeSaleAppendsItems(d, t, s) ==
    IF Existing(d.sales, s.id, t)
    THEN Done([d EXCEPT !.sales[s.id] =
                  [@ EXCEPT !.date = make_timezone_naive(s.date),
                            !.invoice_number = s.invoice_number,
                            !.customer = s.customer,
                            !.items = json_dumps(json_loads(@) \o s.items),
                            !.payment_method = s.payment_method,
                            !.notes = s.notes]])
    ELSE IF Has(d.sales, s.id)
    THEN Raise(d, UniqueViolationError)
    ELSE Done([d EXCEPT !.sales = Put(@, s.id,
                  [id |-> s.id, user_id |-> t,
                   date |-> make_timezone_naive(s.date),
                   invoice_number |-> s.invoice_number,
                   customer |-> s.customer, items |-> json_dumps(s.items),
                   payment_method |-> s.payment_method,
                   notes |-> s.notes])])

\* sales: the line items are written as one JSON text into the items column.
MergeSale(d, t, s) ==
    IF Existing(d.sales, s.id, t)
    THEN Done([d EXCEPT !.sales[s.id] =
                  [@ EXCEPT !.date = make_timezone_naive(s.date),
                            !.invoice_number = s.invoice_number,
                            !.customer = s.customer,
                            !.items = json_dumps(s.items),
                            !.payment_method = s.payment_method,
                            !.notes = s.notes]])
    ELSE IF Has(d.sales, s.id)
    THEN Raise(d, UniqueViolationError)
    ELSE Done([d EXCEPT !.sales = Put(@, s.id,
                  [id |-> s.id, user_id |-> t,
                   date |-> make_timezone_naive(s.date),
                   invoice_number |-> s.invoice_number,
                   customer |-> s.customer, items |-> json_dumps(s.items),
                   payment_method |-> s.payment_method,
                   notes |-> s.notes])])

MergePurchase(d, t, p) ==
    IF Existing(d.purchases, p.id, t)
    THEN Done([d EXCEPT !.purchases[p.id] =
                  [@ EXCEPT !.date = make_timezone_naive(p.date),
                            !.reference_number = p.reference_number,
                            !.supplier_id = p.supplier_id,
                            !.items = json_dumps(p.items),
                            !.payment_method = p.payment_method,
                            !.notes = p.notes]])
    ELSE IF Has(d.purchases, p.id)
    THEN Raise(d, UniqueViolationError)
    ELSE Done([d EXCEPT !.purchases = Put(@, p.id,
                  [id |-> p.id, user_id |-> t,
                   date |-> make_timezone_naive(p.date),
                   reference_number |-> p.reference_number,
                   supplier_id |-> p.supplier_id,
                   items |-> json_dumps(p.items),
                   payment_method |-> p.payment_method,
                   notes |-> p.notes])])

MergeAdjustment(d, t, a) ==
    IF Existing(d.adjustments, a.id, t)
    THEN Done([d EXCEPT !.adjustments[a.id] =
                  [@ EXCEPT !.date = make_timezone_naive(a.date),
                            !.product_id = a.product_id, !.type = a.type,
                            !.quantity = a.quantity, !.reason = a.reason,
                            !.username = a.username]])
    ELSE IF Has(d.adjustments, a.id)
    THEN Raise(d, UniqueViolationError)
    ELSE Done([d EXCEPT !.adjustments = Put(@, a.id,
                  [id |-> a.id, user_id |-> t,
                   date |-> make_timezone_naive(a.date),
                   product_id |-> a.product_id, type |-> a.type,
                   quantity |-> a.quantity, reason |-> a.reason,
                   username |-> a.username])])

\* An upsert that keeps the row it finds (ON CONFLICT DO NOTHING).
MergeSettingsKeepsRow(d, t, s, current_timestamp) ==
    IF Has(d.settings, t)
    THEN Done(d)
    ELSE Done([d EXCEPT !.settings = Put(@, t,
                 [user_id |-> t, business_name |-> s.business_name,
                  currency |-> s.currency, tax_rate |-> s.tax_rate,
                  low_stock_threshold |-> s.low_stock_threshold,
                  invoice_prefix |-> s.invoice_prefix,
                  purchase_prefix |-> s.purchase_prefix,
                  updated_at |-> current_timestamp])])

\* settings: INSERT ... ON CONFLICT (user_id) DO UPDATE; updated_at is
\* CURRENT_TIMESTAMP on both paths (the column default on INSERT).
MergeSettings(d, t, s, current_timestamp) ==
    Done([d EXCEPT !.settings = Put(@, t,
            [user_id |-> t, business_name |-> s.business_name,
             currency |-> s.currency, tax_rate |-> s.tax_rate,
             low_stock_threshold |-> s.low_stock_threshold,
             invoice_prefix |-> s.invoice_prefix,
             purchase_prefix |-> s.purchase_prefix,
             updated_at |-> current_timestamp])])

MergeOne(kind, d, t, r, server_time) ==
    CASE kind = "categories" -> MergeCategory(d, t, r)
      [] kind = "activities" -> MergeActivity(d, t, r)
      [] kind = "products" -> MergeProduct(d, t, r, server_time)
      [] kind = "suppliers" -> MergeSupplier(d, t, r)
      [] kind = "sales" -> MergeSale(d, t, r)
      [] kind = "purchases" -> MergePurchase(d, t, r)
      [] kind = "adjustments" -> MergeAdjustment(d, t, r)
      [] kind = "settings" -> MergeSettings(d, t, r, server_time)

\* One `for` loop of sync over recs[lo..hi]: the records in list order,
\* stopping at the first statement that raises.  The writes made before it
\* stay in the store.  (The range is halved so that a long list is
\* evaluated at a depth logarithmic in its length.)
RECURSIVE MergeRange(_, _, _, _, _, _, _)
MergeRange(kind, res, t, recs, lo, hi, server_time) ==
    IF lo > hi \/ res.error # NoError
    THEN res
    ELSE IF lo = hi
    THEN MergeOne(kind, res.db, t, recs[lo], server_time)
    ELSE LET mid == (lo + hi) \div 2
             left == MergeRange(kind, res, t, recs, lo, mid, server_time)
         IN MergeRange(kind, left, t, recs, mid + 1, hi, server_time)

MergeList(kind, res, t, recs, server_time) ==
    MergeRange(kind, res, t, recs, 1, Len(recs), server_time)

\* The order of the payload's lists with the products ahead of the
\* categories and the activities behind the adjustments.
MergeOrderProductsFirst ==
    <<"products", "categories", "suppliers", "sales", "purchases",
      "adjustments", "activities", "settings">>

\* The order in which sync processes the payload.
MergeOrder ==
    <<"categories", "activities", "products", "suppliers", "sales",
      "purchases", "adjustments", "settings">>

RECURSIVE MergeFrom(_, _, _, _, _)
MergeFrom(n, res, t, data, server_time) ==
    IF n > Len(MergeOrder)
    THEN res
    ELSE MergeFrom(n + 1,
                   MergeList(MergeOrder[n], res, t, data[MergeOrder[n]],
                             server_time),
                   t, data, server_time)

Merge(d, t, data, server_time) == MergeFrom(1, Done(d), t, data, server_time)

\* The number of statements sync runs for the lists before MergeOrder[p].
RECURSIVE StatementsBefore(_, _)
StatementsBefore(data, p) ==
    IF p = 1
    THEN 0
    ELSE StatementsBefore(data, p - 1) + Len(data[MergeOrder[p - 1]])

NumStatements(data) == StatementsBefore(data, Len(MergeOrder) + 1)

\* The records the first n merge steps of sync process.
Prefix(data, n) ==
    [f \in DOMAIN data |->
        IF f = "last_sync_time"
        THEN data[f]
        ELSE LET p == CHOOSE q \in DOMAIN MergeOrder : MergeOrder[q] = f
                 k == n - StatementsBefore(data, p)
             IN IF k <= 0
                THEN <<>>
                ELSE IF k >= Len(data[f])
                THEN data[f]
                ELSE SubSeq(data[f], 1, k)]

\* -------------------------------------------- the change-set collector
record_to_product(record) ==
    [id |-> record.id, user_id |-> record.user_id, name |-> record.name,
     category_id |-> record.category_id,
     description |-> record.description,
     purchase_price |-> record.purchase_price,
     selling_price |-> record.selling_price, stock |-> record.stock,
     reorder_level |-> record.reorder_level, unit |-> record.unit,
     barcode |-> record.barcode,
     created_at |-> make_timezone_naive(record.created_at)]

record_to_category(record) ==
    [id |-> record.id, user_id |-> record.user_id, name |-> record.name,
     description |-> record.description]

record_to_supplier(record) ==
    [id |-> record.id, user_id |-> record.user_id, name |-> record.name,
     contact_person |-> record.contact_person, phone |-> record.phone,
     email |-> record.email, address |-> record.address,
     products |-> record.products,
     payment_terms |-> record.payment_terms]

record_to_adjustment(record) ==
    [id |-> record.id, user_id |-> record.user_id,
     date |-> make_timezone_naive(record.date),
     product_id |-> record.product_id, type |-> record.type,
     quantity |-> record.quantity, reason |-> record.reason,
     username |-> record.username]

record_to_activity(record) ==
    [id |-> record.id, user_id |-> record.user_id,
     date |-> make_timezone_naive(record.date),
     activity |-> record.activity, username |-> record.username,
     details |-> record.details]

record_to_settings(record) ==
    [user_id |-> record.user_id, business_name |-> record.business_name,
     currency |-> record.currency, tax_rate |-> record.tax_rate,
     low_stock_threshold |-> record.low_stock_threshold,
     invoice_prefix |-> record.invoice_prefix,
     purchase_prefix |-> record.purchase_prefix]

\* record_to_sale and record_to_purchase iterate record['items'] and build
\* an item model from each element with **item.  The column holds the JSON
\* text json.dumps wrote and the connection has no JSON codec set, so the
\* value read back is that text: its elements are characters, not mappings,
\* and the first one raises TypeError.  A JSON text is never empty.
ItemsRaise(record) == "str" \in DOMAIN record.items

\* SELECT * FROM <table> WHERE user_id = $1 ORDER BY id
OrderById(rows) ==
    [n \in 1..Cardinality(rows) |->
        CHOOSE r \in rows : Cardinality({q \in rows : q.id < r.id}) = n - 1]

\* Every order in which a set of rows can be listed.
RECURSIVE Orders(_)
Orders(rows) ==
    IF rows = {}
    THEN {<<>>}
    ELSE UNION {{<<r>> \o rest : rest \in Orders(rows \ {r})} : r \in rows}

\* The dates of a set of rows, latest first.
DatesDesc(rows) ==
    LET ds == {r.date : r \in rows}
    IN [n \in 1..Cardinality(ds) |->
           CHOOSE x \in ds : Cardinality({y \in ds : y > x}) = n - 1]

\* The listings of the rows dated ds[lo..hi], latest date first; rows with
\* equal dates come in any order.
RECURSIVE ByDate(_, _, _, _)
ByDate(rows, ds, lo, hi) ==
    IF lo > hi
    THEN {<<>>}
    ELSE IF lo = hi
    THEN Orders({r \in rows : r.date = ds[lo]})
    ELSE LET mid == (lo + hi) \div 2
         IN {a \o b : a \in ByDate(rows, ds, lo, mid),
                      b \in ByDate(rows, ds, mid + 1, hi)}

\* SELECT * FROM activities WHERE user_id = $1 ORDER BY date DESC LIMIT k:
\* every result the statement can give.
OrderByDateDesc(rows, k) ==
    LET ds == DatesDesc(rows)
    IN {SubSeq(s, 1, IF Len(s) < k THEN Len(s) ELSE k)
           : s \in ByDate(rows, ds, 1, Len(ds))}

\* The error the collecting reads raise, if any.
CollectError(d, t) ==
    IF \E r \in Owned(d.sales, t) \cup Owned(d.purchases, t) : ItemsRaise(r)
    THEN TypeError
    ELSE NoError

ErrorResponse(code) ==
    [status |-> code, last_sync_time |-> Null, products |-> <<>>,
     categories |-> <<>>, suppliers |-> <<>>, sales |-> <<>>,
     purchases |-> <<>>, adjustments |-> <<>>, activities |-> <<>>,
     settings |-> <<>>]

\* result, as the reads after the merge fill it; acts is the outcome of the
\* activities query.  No sale or purchase row is read without an error.
Collect(d, t, server_time, acts) ==
    LET products == OrderById(Owned(d.products, t))
        categories == OrderById(Owned(d.categories, t))
        suppliers == OrderById(Owned(d.suppliers, t))
        adjustments == OrderById(Owned(d.adjustments, t))
    IN [status |-> HTTP_200_OK, last_sync_time |-> server_time,
        products |->
            [n \in DOMAIN products |-> record_to_product(products[n])],
        categories |->
            [n \in DOMAIN categories |-> record_to_category(categories[n])],
        suppliers |->
            [n \in DOMAIN suppliers |-> record_to_supplier(suppliers[n])],
        sales |-> <<>>,
        purchases |-> <<>>,
        adjustments |->
            [n \in DOMAIN adjustments |->
                record_to_adjustment(adjustments[n])],
        activities |-> [n \in DOMAIN acts |-> record_to_activity(acts[n])],
        settings |->
            IF Has(d.settings, t) THEN <<record_to_settings(d.settings[t])>>
            ELSE <<>>]

Succeeded(r) == r.status = HTTP_200_OK

\* The except clauses of sync.
SyncResponse(m, t, server_time, acts) ==
    IF m.error = UniqueViolationError
    THEN ErrorResponse(HTTP_409_CONFLICT)
    ELSE IF m.error # NoError \/ CollectError(m.db, t) # NoError
    THEN ErrorResponse(HTTP_500_INTERNAL_SERVER_ERROR)
    ELSE Collect(m.db, t, server_time, acts)

\* --------------------------------------------------------- requests
\* The payloads a client sends: one record of one kind, a category with a
\* product, settings alone, and an empty batch with or without a watermark.
OneRecord ==
    {[SyncData(Null) EXCEPT !.products = <<Product(i, v, v, ca)>>]
        : i \in Ids, v \in Vals, ca \in {Null} \cup Dates}
    \cup {[SyncData(Null) EXCEPT !.products = <<Product(i, v, Null, Null)>>]
        : i \in Ids, v \in Vals}
    \cup {[SyncData(Null) EXCEPT !.categories = <<Category(i, v)>>]
        : i \in Ids, v \in Vals}
    \cup {[SyncData(Null) EXCEPT !.suppliers = <<Supplier(i, v)>>]
        : i \in Ids, v \in Vals}
    \cup {[SyncData(Null) EXCEPT !.sales = <<Sale(i, v, dt)>>]
        : i \in Ids, v \in Vals, dt \in Dates}
    \cup {[SyncData(Null) EXCEPT !.purchases = <<Purchase(i, v, dt)>>]
        : i \in Ids, v \in Vals, dt \in Dates}
    \cup {[SyncData(Null) EXCEPT !.adjustments = <<Adjustment(i, v, dt)>>]
        : i \in Ids, v \in Vals, dt \in Dates}
    \cup {[SyncData(Null) EXCEPT !.activities = <<Activity(i, v, dt)>>]
        : i \in Ids, v \in Vals, dt \in Dates}

TwoKinds ==
    {[SyncData(Null) EXCEPT !.categories = <<Category(i, v)>>,
                            !.products = <<Product(j, v, v, Null)>>]
        : i \in Ids, j \in Ids, v \in Vals}

SettingsOnly ==
    {[SyncData(Null) EXCEPT !.settings = <<Settings(v)>>] : v \in Vals}

EmptyBatch == {SyncData(w) : w \in {Null} \cup (1..MaxStamp)}

\* Payloads the schema rejects: a valid category together with a product
\* whose name is missing, or with an adjustment whose quantity is no number.
Malformed ==
    {[SyncData(Null) EXCEPT
         !.categories = <<Category(i, v)>>,
         !.products = <<[Product(i, v, v, Null) EXCEPT !.name = Null]>>]
        : i \in Ids, v \in Vals}
    \cup {[SyncData(Null) EXCEPT
         !.categories = <<Category(i, v)>>,
         !.adjustments =
             <<[Adjustment(i, v, 1) EXCEPT !.quantity = WrongType]>>]
        : i \in Ids, v \in Vals}

Payloads ==
    OneRecord \cup TwoKinds \cup SettingsOnly \cup EmptyBatch \cup Malformed

\* A batch of n activities with ids and dates 1..n.
ActivityBatch(n, v) ==
    [SyncData(Null) EXCEPT !.activities = [i \in 1..n |-> Activity(i, v, i)]]

BulkSizes == {1, ActivityLimit, ActivityLimit + 1}

BulkPayloads == {ActivityBatch(n, v) : n \in BulkSizes, v \in Vals}

\* A category, a product and settings in one payload.
ThreeKinds ==
    {[SyncData(Null) EXCEPT !.categories = <<Category(i, v)>>,
                            !.products = <<Product(j, v, v, Null)>>,
                            !.settings = <<Settings(v)>>]
        : i \in Ids, j \in Ids, v \in Vals}

\* The payloads of the requests a client repeats after a failure.
RetryPayloads ==
    TwoKinds \cup ThreeKinds \cup SettingsOnly
    \cup {p \in OneRecord :
             p.products # <<>> \/ p.activities # <<>> \/ p.sales # <<>>}

NoRequest == [op |-> "none", user |-> Null, data |-> SyncData(Null)]

NoAttempt == [db |-> EmptyDb, time |-> Null, left |-> EmptyDb]

\* A request slot before its request arrives.  log lists the kinds of the
\* merge statements the request has run, in the order it ran them.
IdleCall ==
    [pc |-> "idle", user |-> Null, data |-> SyncData(Null), n |-> 0,
     existing |-> FALSE, server_time |-> Null, log |-> <<>>, reads |-> 0,
     result |-> ErrorResponse(Null)]

\* The email of the user with id t: current_user.email, the text the create
\* endpoints store as username.
Email(t) == MaxVal + t

\* The state after startup: init_db has dropped and recreated the eight
\* inventory tables, so all are empty; the users table is kept, and the
\* tenants in Users signed up before.
Init ==
    /\ db = EmptyDb
    /\ now = 1
    /\ req = NoRequest
    /\ resp = ErrorResponse(Null)
    /\ attempt = NoAttempt
    /\ mark = [t \in Users |-> Null]
    /\ seq = [k \in ListKinds |-> 1]
    /\ calls = [c \in Calls |-> IdleCall]
    /\ users = [t \in Users |-> Email(t)]

\* The body of sync for tenant t and payload data: the payload is
\* validated first, then server_time is read from the clock once, before the
\* merge; each request reads a later time than the one before it.
Handle(op, t, data) ==
    /\ IF ~Validates(data)
       THEN /\ db' = db
            /\ resp' = ErrorResponse(HTTP_422_UNPROCESSABLE_ENTITY)
       ELSE LET server_time == now
                m == Merge(db, t, data, server_time)
            IN /\ db' = m.db
               /\ \E acts \in OrderByDateDesc(Owned(m.db.activities, t),
                                              ActivityLimit) :
                     resp' = SyncResponse(m, t, server_time, acts)
    /\ req' = [op |-> op, user |-> t, data |-> data]
    /\ now' = now + 1

\* POST /sync by tenant t with payload data.
Sync(t, data) ==
    /\ now <= MaxRequests
    /\ Handle("sync", t, data)
    /\ UNCHANGED <<attempt, mark, seq, calls, users>>

\* POST /sync by the device of tenant t that keeps the watermark: it uploads
\* nothing, passes the last_sync_time it holds and keeps the one returned.
MarkedSync(t) ==
    /\ now <= MaxBulkRequests
    /\ Handle("marked", t, SyncData(mark[t]))
    /\ mark' = [mark EXCEPT ![t] = IF Succeeded(resp')
                                   THEN resp'.last_sync_time
                                   ELSE @]
    /\ UNCHANGED <<attempt, seq, calls, users>>

\* POST /sync by a client that will send the request again if it fails.
Attempt(t, data) ==
    /\ now < MaxAttempts
    /\ Handle("sync", t, data)
    /\ attempt' = [db |-> db, time |-> now, left |-> db']
    /\ UNCHANGED <<mark, seq, calls, users>>

\* POST /sync during which the connection to the database is lost after n
\* merge steps: the statement under way raises, `except Exception` answers
\* 500, and the n steps already run stay committed.  n = NumStatements(data)
\* is a failure during the collecting reads.
AttemptFails(t, data, n) ==
    /\ now < MaxAttempts
    /\ Validates(data)
    /\ LET m == Merge(db, t, Prefix(data, n), now)
       IN /\ m.error = NoError
          /\ db' = m.db
          /\ attempt' = [db |-> db, time |-> now, left |-> m.db]
    /\ resp' = ErrorResponse(HTTP_500_INTERNAL_SERVER_ERROR)
    /\ req' = [op |-> "sync", user |-> t, data |-> data]
    /\ now' = now + 1
    /\ UNCHANGED <<mark, seq, calls, users>>

\* The client sends the request that failed once more, unchanged.
Retry ==
    /\ now <= MaxAttempts
    /\ req.op = "sync"
    /\ ~Succeeded(resp)
    /\ Handle("retry", req.user, req.data)
    /\ UNCHANGED <<attempt, mark, seq, calls, users>>

\* ------------------------------------------------ the create endpoints
\* A create endpoint from its first statement to its answer.  row is what
\* INSERT INTO <kind> (...) VALUES (...) RETURNING id writes; the statement
\* names no id, so the row gets the next value of the table's sequence,
\* whatever id the request model carries.  A timezone-aware datetime bound
\* to a TIMESTAMP WITHOUT TIME ZONE parameter raises DataError in the
\* driver, before the statement is sent; a NOT NULL or primary-key violation
\* is raised by the server, after the sequence has advanced.  The activity
\* INSERT that follows binds datetime.now(timezone.utc), which is
\* timezone-aware, so it raises DataError and writes nothing.  No handler
\* catches any of these: the answer is 500, and the row stays.
Created(kind, t, r, row, error) ==
    /\ now <= MaxRequests
    /\ seq' = IF error = DataError THEN seq ELSE [seq EXCEPT ![kind] = @ + 1]
    /\ db' = IF error = NoError /\ ~Has(db[kind], seq[kind])
             THEN [db EXCEPT ![kind] =
                      Put(@, seq[kind], [row EXCEPT !.id = seq[kind]])]
             ELSE db
    /\ resp' = ErrorResponse(HTTP_500_INTERNAL_SERVER_ERROR)
    /\ req' = [op |-> "create", user |-> t,
               data |-> [SyncData(Null) EXCEPT ![kind] = <<r>>]]
    /\ now' = now + 1
    /\ UNCHANGED <<attempt, mark, calls, users>>

\* What binding a request's datetime to a timestamp parameter raises.
BindError(dt) == IF dt < 0 THEN DataError ELSE NoError

create_product(t, product) ==
    Created("products", t, product,
            [id |-> Null, user_id |-> t, name |-> product.name,
             category_id |-> product.category_id,
             description |-> product.description,
             purchase_price |-> product.purchase_price,
             selling_price |-> product.selling_price,
             stock |-> product.stock,
             reorder_level |-> product.reorder_level,
             unit |-> product.unit, barcode |-> product.barcode,
             created_at |-> now],
            IF Null \in {product.purchase_price, product.selling_price,
                         product.reorder_level}
            THEN NotNullViolationError
            ELSE NoError)

create_category(t, category) ==
    Created("categories", t, category,
            [id |-> Null, user_id |-> t, name |-> category.name,
             description |-> category.description],
            NoError)

create_supplier(t, supplier) ==
    Created("suppliers", t, supplier,
            [id |-> Null, user_id |-> t, name |-> supplier.name,
             contact_person |-> supplier.contact_person,
             phone |-> supplier.phone, email |-> supplier.email,
             address |-> supplier.address, products |-> supplier.products,
             payment_terms |-> supplier.payment_terms],
            NoError)

create_sale(t, sale) ==
    Created("sales", t, sale,
            [id |-> Null, user_id |-> t, date |-> sale.date,
             invoice_number |-> sale.invoice_number,
             customer |-> sale.customer, items |-> json_dumps(sale.items),
             payment_method |-> sale.payment_method, notes |-> sale.notes],
            BindError(sale.date))

create_purchase(t, purchase) ==
    Created("purchases", t, purchase,
            [id |-> Null, user_id |-> t, date |-> purchase.date,
             reference_number |-> purchase.reference_number,
             supplier_id |-> purchase.supplier_id,
             items |-> json_dumps(purchase.items),
             payment_method |-> purchase.payment_method,
             notes |-> purchase.notes],
            BindError(purchase.date))

create_adjustment(t, adjustment) ==
    Created("adjustments", t, adjustment,
            [id |-> Null, user_id |-> t, date |-> adjustment.date,
             product_id |-> adjustment.product_id, type |-> adjustment.type,
             quantity |-> adjustment.quantity, reason |-> adjustment.reason,
             username |-> Email(t)],
            BindError(adjustment.date))

\* The bodies the create endpoints are called with.
NewProducts ==
    {Product(i, v, v, Null) : i \in Ids, v \in Vals}
    \cup {Product(i, v, Null, Null) : i \in Ids, v \in Vals}

NewDates == {1, 0 - MaxStamp}

CreateRequest ==
    \E t \in Users : \E i \in Ids : \E v \in Vals :
        \/ \E product \in NewProducts : create_product(t, product)
        \/ create_category(t, Category(i, v))
        \/ create_supplier(t, Supplier(i, v))
        \/ \E d \in NewDates : create_sale(t, Sale(i, v, d))
        \/ \E d \in NewDates : create_purchase(t, Purchase(i, v, d))
        \/ \E d \in NewDates : create_adjustment(t, Adjustment(i, v, d))

\* The syncs that run beside the create endpoints.
SyncBesideCreate ==
    \E t \in Users : \E data \in TwoKinds \cup SettingsOnly : Sync(t, data)

NextCreate == CreateRequest \/ SyncBesideCreate

SpecCreate == Init /\ [][NextCreate]_vars

\* -------------------------------------------------- the list endpoints
\* GET /<kind>: the caller's rows through the converter of the kind, in the
\* same shape as a sync response with one list filled.  get_sales and
\* get_purchases raise on the first row (see ItemsRaise), and nothing
\* catches it.
GetList(kind, t) ==
    /\ \E acts \in OrderByDateDesc(Owned(db.activities, t), ActivityLimit) :
          resp' = IF /\ kind \in {"sales", "purchases"}
                     /\ \E r \in Owned(db[kind], t) : ItemsRaise(r)
                  THEN ErrorResponse(HTTP_500_INTERNAL_SERVER_ERROR)
                  ELSE [ErrorResponse(HTTP_200_OK) EXCEPT
                           ![kind] = Collect(db, t, Null, acts)[kind]]
    /\ req' = [op |-> "list", user |-> t, data |-> SyncData(Null)]
    /\ UNCHANGED <<db, now, attempt, mark, seq, calls, users>>

get_products(t) == GetList("products", t)

get_categories(t) == GetList("categories", t)

get_suppliers(t) == GetList("suppliers", t)

get_sales(t) == GetList("sales", t)

get_purchases(t) == GetList("purchases", t)

get_adjustments(t) == GetList("adjustments", t)

get_activities(t) == GetList("activities", t)

\* GET /settings answers 404 when the tenant has no settings row.
get_settings(t) ==
    /\ resp' = IF Has(db.settings, t)
               THEN [ErrorResponse(HTTP_200_OK) EXCEPT
                        !.settings = <<record_to_settings(db.settings[t])>>]
               ELSE ErrorResponse(HTTP_404_NOT_FOUND)
    /\ req' = [op |-> "list", user |-> t, data |-> SyncData(Null)]
    /\ UNCHANGED <<db, now, attempt, mark, seq, calls, users>>

ListRequest ==
    \E t \in Users :
        \/ get_products(t)
        \/ get_categories(t)
        \/ get_suppliers(t)
        \/ get_sales(t)
        \/ get_purchases(t)
        \/ get_adjustments(t)
        \/ get_activities(t)
        \/ get_settings(t)

\* The syncs that run beside the list endpoints: a category with a product,
\* settings, and one supplier, sale, purchase, adjustment or activity.
ListedPayloads ==
    TwoKinds \cup SettingsOnly
    \cup {p \in OneRecord :
             /\ p.products = <<>>
             /\ p.categories = <<>>
             /\ \A k \in {"sales", "purchases", "adjustments", "activities"} :
                   \A n \in DOMAIN p[k] : p[k][n].date = 1}

SyncBesideList == \E t \in Users : \E data \in ListedPayloads : Sync(t, data)

NextList == ListRequest \/ SyncBesideList

SpecList == Init /\ [][NextList]_vars

\* Payloads whose records name an owner: nobody, the caller or another
\* tenant.
OwnerPayloads ==
    UNION {{[SyncData(Null) EXCEPT
                !.categories = <<[Category(i, v) EXCEPT !.user_id = u]>>],
            [SyncData(Null) EXCEPT
                !.activities = <<[Activity(i, v, 1) EXCEPT !.user_id = u]>>],
            [SyncData(Null) EXCEPT
                !.products = <<[Product(i, v, v, Null) EXCEPT !.user_id = u]>>],
            [SyncData(Null) EXCEPT
                !.settings = <<[Settings(v) EXCEPT !.user_id = u]>>]}
           : i \in Ids, v \in Vals, u \in {Null} \cup Users}

SyncOwner == \E t \in Users : \E data \in OwnerPayloads : Attempt(t, data)

NextOwner == SyncOwner

SpecOwner == Init /\ [][NextOwner]_vars

\* ------------------------------------------------ startup and signup
\* The database before the server has ever started: no users row and no
\* inventory table.
InitFresh ==
    /\ db = EmptyDb
    /\ now = 1
    /\ req = NoRequest
    /\ resp = ErrorResponse(Null)
    /\ attempt = NoAttempt
    /\ mark = [t \in Users |-> Null]
    /\ seq = [k \in ListKinds |-> 1]
    /\ calls = [c \in Calls |-> IdleCall]
    /\ users = <<>>

\* 'admin@stockmaster.ug'; on a fresh database the admin gets the first id.
AdminEmail == Email(1)

\* The emails of the users table.
Registered(u) == {u[i] : i \in DOMAIN u}

\* An init_db that creates the inventory tables only when they are missing
\* (CREATE TABLE IF NOT EXISTS, no DROP).
init_db_keeps_tables(u, d) ==
    [users |-> IF AdminEmail \in Registered(u) THEN u
               ELSE Append(u, AdminEmail),
     db |-> d]

\* init_db: CREATE TABLE IF NOT EXISTS users keeps the rows there are; the
\* admin is inserted when no row has its email; each of the eight inventory
\* tables is dropped and created again, empty.
init_db(u, d) ==
    [users |-> IF AdminEmail \in Registered(u) THEN u
               ELSE Append(u, AdminEmail),
     db |-> EmptyDb]

\* The startup event of a run of the server.  The sequences of the SERIAL
\* ids go with the dropped tables and start again at 1.  startup answers no
\* request, so resp stays the last response given.
startup ==
    /\ LET r == init_db(users, db)
       IN /\ users' = r.users
          /\ db' = r.db
    /\ seq' = [k \in ListKinds |-> 1]
    /\ req' = [op |-> "startup", user |-> Null, data |-> SyncData(Null)]
    /\ UNCHANGED <<now, resp, attempt, mark, calls>>

\* The value of each column of the settings row signup inserts.
DefaultSetting == MaxVal + 1

\* POST /signup, from its first statement to its answer.  A registered
\* email is refused with 400.  Otherwise the users row is inserted, then the
\* default settings row, each committed as its statement ends; the activity
\* INSERT binds datetime.now(timezone.utc) to a TIMESTAMP WITHOUT TIME ZONE
\* parameter, which raises DataError in the driver, and the except clause
\* answers 500.
signup(email) ==
    /\ users # <<>>
    /\ IF email \in Registered(users)
       THEN /\ resp' = ErrorResponse(HTTP_400_BAD_REQUEST)
            /\ UNCHANGED <<users, db>>
       ELSE LET user_id == Len(users) + 1
            IN /\ users' = Append(users, email)
               /\ db' = [db EXCEPT !.settings = Put(@, user_id,
                            [user_id |-> user_id,
                             business_name |-> DefaultSetting,
                             currency |-> DefaultSetting,
                             tax_rate |-> DefaultSetting,
                             low_stock_threshold |-> DefaultSetting,
                             invoice_prefix |-> DefaultSetting,
                             purchase_prefix |-> DefaultSetting,
                             updated_at |-> now])]
               /\ resp' = ErrorResponse(HTTP_500_INTERNAL_SERVER_ERROR)
    /\ req' = [op |-> "signup", user |-> email, data |-> SyncData(Null)]
    /\ UNCHANGED <<now, attempt, mark, seq, calls>>

SignupEmails == {Email(t) : t \in 1..MaxEmails}

SignupRequest == \E email \in SignupEmails : signup(email)

\* The syncs of the registered users: an activity, settings, or a category
\* with a product.
AccountPayloads ==
    SettingsOnly
    \cup {[SyncData(Null) EXCEPT !.activities = <<Activity(i, v, 1)>>]
            : i \in Ids, v \in Vals}
    \cup {p \in TwoKinds : p.categories[1].id = p.products[1].id}

SyncAccount ==
    \E t \in Users \cap DOMAIN users : \E data \in AccountPayloads :
        Sync(t, data)

NextAccounts == startup \/ SignupRequest \/ SyncAccount

SpecAccounts == InitFresh /\ [][NextAccounts]_vars

SyncRequest == \E t \in Users : \E data \in Payloads : Sync(t, data)

SyncBulk == \E t \in Users : \E data \in BulkPayloads : Sync(t, data)

Next == SyncRequest

Spec == Init /\ [][Next]_vars

SyncMarked == \E t \in Users : MarkedSync(t)

NextBulk == SyncBulk \/ SyncMarked

SyncAttempt == \E t \in Users : \E data \in RetryPayloads : Attempt(t, data)

SyncAttemptFails ==
    \E t \in Users : \E data \in RetryPayloads :
        \E n \in 0..NumStatements(data) : AttemptFails(t, data, n)

NextRetry == SyncAttempt \/ SyncAttemptFails \/ Retry

SpecRetry == Init /\ [][NextRetry]_vars

SpecBulk == Init /\ [][NextBulk]_vars

\* Sales and purchases with line-item lists of every length up to MaxItems.
ItemLists == UNION {[1..n -> {SaleItem(v) : v \in Vals}] : n \in 0..MaxItems}

ItemPayloads ==
    {[SyncData(Null) EXCEPT !.sales = <<[Sale(i, 1, 1) EXCEPT !.items = l]>>]
        : i \in Ids, l \in ItemLists}
    \cup {[SyncData(Null) EXCEPT
              !.purchases = <<[Purchase(i, 1, 1) EXCEPT !.items = l]>>]
        : i \in Ids, l \in ItemLists}

SyncItems == \E t \in Users : \E data \in ItemPayloads : Attempt(t, data)

NextItems == SyncItems

SpecItems == Init /\ [][NextItems]_vars

\* ------------------------------------------- sync, statement by statement
\* sync is a coroutine: it gives up control at every await, so the
\* statements of two requests in flight interleave.  Each request runs on a
\* connection of its own and opens no transaction, so every statement is
\* committed as it ends.
\* The reads that fill result, in the order sync makes them.
ReadOrder ==
    <<"products", "categories", "suppliers", "sales", "purchases",
      "adjustments", "activities", "settings">>

\* The kinds sync merges with one INSERT ... ON CONFLICT statement; every
\* other kind is merged by a SELECT followed by an UPDATE or an INSERT.
UpsertKinds == {"activities", "settings"}

\* The list the n-th merge statement of a request belongs to, its kind and
\* its record.
StageOf(data, n) ==
    CHOOSE p \in DOMAIN MergeOrder :
        StatementsBefore(data, p) < n /\ n <= StatementsBefore(data, p + 1)

KindAt(data, n) == MergeOrder[StageOf(data, n)]

RecordAt(data, n) ==
    data[KindAt(data, n)][n - StatementsBefore(data, StageOf(data, n))]

\* Where a request stands before its n-th merge statement.
PcAt(data, n) ==
    IF n > NumStatements(data)
    THEN "read"
    ELSE IF KindAt(data, n) \in UpsertKinds THEN "upsert" ELSE "select"

\* The payloads of the requests in flight: a category and a product of the
\* same id, and a batch of four kinds.
StepPayloads ==
    {p \in TwoKinds : p.categories[1].id = p.products[1].id}
    \cup {[SyncData(Null) EXCEPT !.categories = <<Category(1, 1)>>,
                                 !.activities = <<Activity(1, 1, 1)>>,
                                 !.products = <<Product(1, 1, 1, Null)>>,
                                 !.settings = <<Settings(1)>>]}

\* An except clause of sync ends the request.
Fails(call, error) ==
    [call EXCEPT !.pc = "done",
                 !.result = ErrorResponse(
                     IF error = UniqueViolationError
                     THEN HTTP_409_CONFLICT
                     ELSE HTTP_500_INTERNAL_SERVER_ERROR)]

\* A merge statement of a request ended without an error.
Proceeds(call) ==
    [call EXCEPT !.pc = PcAt(call.data, call.n + 1),
                 !.n = call.n + 1,
                 !.log = Append(@, KindAt(call.data, call.n))]

\* The request is validated and server_time is read.
Begin(c, t, data) ==
    /\ calls[c].pc = "idle"
    /\ \A b \in Calls : b < c => calls[b].pc # "idle"
    /\ now <= MaxRequests
    /\ calls' = [calls EXCEPT ![c] =
          IF ~Validates(data)
          THEN [IdleCall EXCEPT
                   !.pc = "done", !.user = t, !.data = data,
                   !.result = ErrorResponse(HTTP_422_UNPROCESSABLE_ENTITY)]
          ELSE [IdleCall EXCEPT
                   !.pc = PcAt(data, 1), !.user = t, !.data = data,
                   !.n = 1, !.server_time = now,
                   !.result = [ErrorResponse(Null)
                                  EXCEPT !.last_sync_time = now]]]
    /\ now' = now + 1
    /\ UNCHANGED <<db, req, resp, attempt, mark, seq, users>>

\* existing = await conn.fetchrow(SELECT id ... WHERE id = $1 AND user_id = $2)
Select(c) ==
    LET call == calls[c]
        r == RecordAt(call.data, call.n)
    IN /\ call.pc = "select"
       /\ calls' = [calls EXCEPT ![c] =
             [call EXCEPT !.pc = "write",
                          !.existing = Existing(db[KindAt(call.data, call.n)],
                                                r.id, call.user)]]
       /\ UNCHANGED <<db, now, req, resp, attempt, mark, seq, users>>

\* The statement the branch on existing runs, against the store as it is
\* now.  No row is ever deleted, so the UPDATE finds the row the SELECT
\* found; the INSERT finds the id taken if any row holds it by now.
Written(kind, d, t, r, server_time, existing) ==
    LET m == MergeOne(kind, d, t, r, server_time)
    IN IF ~existing /\ Has(d[kind], r.id) /\ m.error # NotNullViolationError
       THEN Raise(d, UniqueViolationError)
       ELSE m

Write(c) ==
    LET call == calls[c]
        kind == KindAt(call.data, call.n)
        m == Written(kind, db, call.user, RecordAt(call.data, call.n),
                     call.server_time, call.existing)
    IN /\ call.pc = "write"
       /\ db' = m.db
       /\ calls' = [calls EXCEPT ![c] =
             IF m.error # NoError THEN Fails(call, m.error)
             ELSE Proceeds(call)]
       /\ UNCHANGED <<now, req, resp, attempt, mark, seq, users>>

\* INSERT ... ON CONFLICT ... DO UPDATE, for an activity or the settings.
Upsert(c) ==
    LET call == calls[c]
        m == MergeOne(KindAt(call.data, call.n), db, call.user,
                      RecordAt(call.data, call.n), call.server_time)
    IN /\ call.pc = "upsert"
       /\ db' = m.db
       /\ calls' = [calls EXCEPT ![c] =
             IF m.error # NoError THEN Fails(call, m.error)
             ELSE Proceeds(call)]
       /\ UNCHANGED <<now, req, resp, attempt, mark, seq, users>>

\* One of the reads that fill result; the last one ends the request.
Read(c) ==
    LET call == calls[c]
        kind == ReadOrder[call.reads + 1]
    IN /\ call.pc = "read"
       /\ \E acts \in OrderByDateDesc(Owned(db.activities, call.user),
                                      ActivityLimit) :
             calls' = [calls EXCEPT ![c] =
                IF /\ kind \in {"sales", "purchases"}
                   /\ \E r \in Owned(db[kind], call.user) : ItemsRaise(r)
                THEN Fails(call, TypeError)
                ELSE [call EXCEPT
                         !.result[kind] =
                             Collect(db, call.user, call.server_time,
                                     acts)[kind],
                         !.result.status =
                             IF call.reads + 1 = Len(ReadOrder)
                             THEN HTTP_200_OK ELSE @,
                         !.reads = call.reads + 1,
                         !.pc = IF call.reads + 1 = Len(ReadOrder)
                                THEN "done" ELSE "read"]]
       /\ UNCHANGED <<db, now, req, resp, attempt, mark, seq, users>>

SyncBegins ==
    \E c \in Calls : \E t \in Users : \E data \in StepPayloads :
        Begin(c, t, data)

SyncSelects == \E c \in Calls : Select(c)

SyncWrites == \E c \in Calls : Write(c)

SyncUpserts == \E c \in Calls : Upsert(c)

SyncReads == \E c \in Calls : Read(c)

NextSteps ==
    SyncBegins \/ SyncSelects \/ SyncWrites \/ SyncUpserts \/ SyncReads

SpecSteps == Init /\ [][NextSteps]_vars

\* ------------------------------------------------------------ claims
\* The kinds whose rows carry a timestamp, and the column that holds it.
MarkedKinds == {"products", "sales", "purchases", "adjustments", "activities"}

\* The kinds whose rows a response can carry (see ItemsRaise).
ReturnedKinds == ListKinds \ {"sales", "purchases"}

\* The kinds merged by select-then-write; activities are upserted.
CheckedKinds == MarkedKinds \ {"activities"}

Marker(kind, r) == IF kind = "products" THEN r.created_at ELSE r.date

\* The columns of kind other than the key, the owner and the timestamp.
DataFields(kind, r) ==
    (DOMAIN r) \ {"id", "user_id", IF kind = "products" THEN "created_at"
                                    ELSE "date"}

\* The value column f of a row holds when it is written from record r.
ColumnOf(r, f) == IF f = "items" THEN json_dumps(r[f]) ELSE r[f]

\* A stored row as a response list carries it.
Returned(kind, row) ==
    CASE kind = "products" -> record_to_product(row)
      [] kind = "categories" -> record_to_category(row)
      [] kind = "suppliers" -> record_to_supplier(row)
      [] kind = "adjustments" -> record_to_adjustment(row)
      [] kind = "activities" -> record_to_activity(row)

\* The ids of the rows in a response list.
ListedIds(list) == {list[n].id : n \in DOMAIN list}

\* C1: a record uploaded with a marker strictly older than the stored
\* record's leaves the stored record unchanged in every field, and the
\* response carries the stored values for that id.
C1_StaleUploadKeepsStored ==
    [][\A k \in CheckedKinds : \A n \in DOMAIN req'.data[k] :
          LET r == req'.data[k][n]
          IN (/\ Existing(db[k], r.id, req'.user)
              /\ Marker(k, r) # Null
              /\ make_timezone_naive(Marker(k, r)) < Marker(k, db[k][r.id]))
             => /\ Has(db'[k], r.id)
                /\ db'[k][r.id] = db[k][r.id]
                /\ Succeeded(resp') =>
                      \A m \in DOMAIN resp'[k] :
                          resp'[k][m].id = r.id
                          => resp'[k][m] = Returned(k, db[k][r.id])]_vars

\* C2: a record uploaded with a marker strictly newer than the stored
\* record's overwrites the whole record: after a sync that completes, every
\* field of the stored record equals the incoming record's.
C2_NewerUploadOverwritesEveryField ==
    [][\A k \in MarkedKinds : \A n \in DOMAIN req'.data[k] :
          LET r == req'.data[k][n]
          IN (/\ Existing(db[k], r.id, req'.user)
              /\ Marker(k, r) # Null
              /\ make_timezone_naive(Marker(k, r)) > Marker(k, db[k][r.id])
              /\ Succeeded(resp'))
             => /\ Has(db'[k], r.id)
                /\ \A f \in DataFields(k, r) :
                      db'[k][r.id][f] = ColumnOf(r, f)]_vars

\* C3: a record uploaded with a marker equal to the stored record's is a
\* no-op: the stored record is unchanged and the sync returns no error.
C3_EqualMarkerIsNoOp ==
    [][\A k \in CheckedKinds : \A n \in DOMAIN req'.data[k] :
          LET r == req'.data[k][n]
          IN (/\ Existing(db[k], r.id, req'.user)
              /\ Marker(k, r) # Null
              /\ make_timezone_naive(Marker(k, r)) = Marker(k, db[k][r.id]))
             => /\ Has(db'[k], r.id)
                /\ db'[k][r.id] = db[k][r.id]]_vars

\* C4: a request of one tenant never modifies a row another tenant owns,
\* and never returns one.
C4_TenantIsolation ==
    [][/\ \A k \in ListKinds : \A i \in DOMAIN db[k] :
             db[k][i].user_id # req'.user
             => Has(db'[k], i) /\ db'[k][i] = db[k][i]
       /\ \A u \in DOMAIN db.settings :
             u # req'.user => Has(db'.settings, u)
                              /\ db'.settings[u] = db.settings[u]
       /\ \A k \in ListKinds : \A n \in DOMAIN resp'[k] :
             resp'[k][n].user_id = req'.user]_vars

\* C5: a sync one of whose merge steps fails leaves the store as it was
\* before the request.
C5_FailedSyncWritesNothing ==
    [][Merge(db, req'.user, req'.data, now).error # NoError
       => db' = db]_vars

\* C6: running the same sync twice in a row leaves the store as running
\* it once leaves it, modification markers included.
C6_SyncTwiceIsSyncOnce ==
    [][(req.op = "sync" /\ req' = req) => db' = db]_vars

\* C7: after a sync without a watermark has returned watermark W, a sync
\* of the same tenant with last_sync_time = W and an empty batch returns
\* seven empty lists.  Stated for the stores in which no timestamp of the
\* tenant's rows is later than W, so that no stored row is newer than the
\* watermark the second request sends.
C7_RoundTripReturnsNothing ==
    [][(/\ req.op = "sync"
        /\ req.data.last_sync_time = Null
        /\ Succeeded(resp)
        /\ \A k \in MarkedKinds : \A row \in Owned(db[k], req.user) :
              Marker(k, row) <= resp.last_sync_time
        /\ req'.user = req.user
        /\ req'.data = SyncData(resp.last_sync_time))
       => /\ Succeeded(resp')
          /\ \A k \in ListKinds : resp'[k] = <<>>]_vars

\* C8: a record whose id the caller's tenant does not hold is inserted:
\* the sync succeeds, the record is stored under the caller's tenant with
\* the client's id and field values, and the response carries it.
C8_NewRecordIsCreated ==
    [][\A k \in ReturnedKinds : \A n \in DOMAIN req'.data[k] :
          LET r == req'.data[k][n]
          IN ~Existing(db[k], r.id, req'.user)
             => /\ Succeeded(resp')
                /\ Has(db'[k], r.id)
                /\ db'[k][r.id].user_id = req'.user
                /\ \A f \in DataFields(k, r) :
                      db'[k][r.id][f] = ColumnOf(r, f)
                /\ r.id \in ListedIds(resp'[k])]_vars

\* C9: a sync called with watermark W returns, in each list, exactly the
\* tenant's records whose modification marker is greater than W.
C9_WatermarkFilter ==
    (req.op = "sync" /\ req.data.last_sync_time # Null /\ Succeeded(resp))
    => \A k \in MarkedKinds \cap ReturnedKinds :
          ListedIds(resp[k]) =
              {r.id : r \in {q \in Owned(db[k], req.user) :
                                Marker(k, q) > req.data.last_sync_time}}

\* C10: a sync called without a watermark returns, in each of the seven
\* lists, every record the tenant holds, however many there are.
C10_FullSyncReturnsEverything ==
    (req.op = "sync" /\ req.data.last_sync_time = Null /\ Succeeded(resp))
    => \A k \in ListKinds :
          ListedIds(resp[k]) = {r.id : r \in Owned(db[k], req.user)}

\* C11: a sync whose insert path hits a duplicate key (the id is stored,
\* but the existence check, which filters by owner, did not find it) returns
\* no duplicate-key error to the caller.
C11_DuplicateKeyRecovered ==
    [][(/\ Validates(req'.data)
        /\ \E k \in ListKinds \ {"activities"} :
              \E n \in DOMAIN req'.data[k] :
                  /\ Has(db[k], req'.data[k][n].id)
                  /\ ~Existing(db[k], req'.data[k][n].id, req'.user))
       => resp'.status # HTTP_409_CONFLICT]_vars

\* C12: a sync whose payload the schema rejects is answered with a
\* validation error and writes nothing, whatever valid records the payload
\* also carries.
C12_MalformedPayloadWritesNothing ==
    [][req'.data \in Malformed
       => /\ db' = db
          /\ resp'.status = HTTP_422_UNPROCESSABLE_ENTITY]_vars

\* A rejected payload carrying a valid category the store does not hold,
\* sent when the store is not empty.
C12_Witness ==
    /\ req.op = "sync"
    /\ req.data \in Malformed
    /\ resp.status = HTTP_422_UNPROCESSABLE_ENTITY
    /\ db # EmptyDb
    /\ ~Has(db.categories, req.data.categories[1].id)

\* The rows of store d that tenant t owns, table by table.
OwnStore(d, t) ==
    [k \in DOMAIN d |->
        [i \in {j \in DOMAIN d[k] : d[k][j].user_id = t} |-> d[k][i]]]

\* C15: the outcome of a tenant's sync (status, response, the tenant's
\* stored rows) is the outcome the same sync has on a store that holds the
\* tenant's own rows only: it does not depend on what other tenants hold.
C15_OutcomeDependsOnOwnRowsOnly ==
    [][Validates(req'.data)
       => LET t == req'.user
              m == Merge(OwnStore(db, t), t, req'.data, now)
          IN /\ OwnStore(db', t) = OwnStore(m.db, t)
             /\ \E acts \in OrderByDateDesc(Owned(m.db.activities, t),
                                            ActivityLimit) :
                   resp' = SyncResponse(m, t, now, acts)]_vars

\* C17: every settings row sits in its owner's slot, so a tenant has at
\* most one.  A sync carrying settings whose merge reaches the settings
\* step leaves the tenant's row holding the uploaded values, adds no other
\* row and changes none; a sync that succeeds returns the stored row.
C17_SettingsSingleton ==
    [][LET t == req'.user
           sent == req'.data.settings
       IN /\ \A u \in DOMAIN db'.settings :
                u \in Users /\ db'.settings[u].user_id = u
          /\ (/\ Validates(req'.data)
              /\ sent # <<>>
              /\ Merge(db, t, req'.data, now).error = NoError)
             => /\ DOMAIN db'.settings = (DOMAIN db.settings) \cup {t}
                /\ record_to_settings(db'.settings[t]) =
                      [sent[1] EXCEPT !.user_id = t]
                /\ \A u \in (DOMAIN db.settings) \ {t} :
                      db'.settings[u] = db.settings[u]
          /\ Succeeded(resp')
             => resp'.settings =
                   IF Has(db'.settings, t)
                   THEN <<record_to_settings(db'.settings[t])>>
                   ELSE <<>>]_vars

\* Both tenants hold a settings row, the second written by a sync that
\* succeeded and returned it.
C17_Witness ==
    /\ DOMAIN db.settings = Users
    /\ req.op = "sync"
    /\ req.data.settings # <<>>
    /\ Succeeded(resp)
    /\ resp.settings = <<[req.data.settings[1] EXCEPT !.user_id = req.user]>>

\* C20: whenever a sync writes a record, the timestamp stored with it is
\* this sync's server time, never the one the client sent.
C20_ServerStampedMarkers ==
    [][(Validates(req'.data)
        /\ Merge(db, req'.user, req'.data, now).error = NoError)
       => \A k \in MarkedKinds : \A n \in DOMAIN req'.data[k] :
             /\ Has(db'[k], req'.data[k][n].id)
             /\ Marker(k, db'[k][req'.data[k][n].id]) = now]_vars

\* Store d without the timestamps the server assigns while it handles
\* data: updated_at of settings, and created_at of the products that data
\* uploads without one.
Unstamped(d, data) ==
    [d EXCEPT
       !.settings = [u \in DOMAIN @ |-> [@[u] EXCEPT !.updated_at = Null]],
       !.products =
           [i \in DOMAIN @ |->
               IF \E n \in DOMAIN data.products :
                      /\ data.products[n].id = i
                      /\ data.products[n].created_at = Null
               THEN [@[i] EXCEPT !.created_at = Null]
               ELSE @[i]]]

C16_NothingCommittedAfterWatermarkIsMissed ==
    [][(/\ req.op = "sync"
        /\ Succeeded(resp)
        /\ req'.op = "marked"
        /\ req'.user = req.user
        /\ mark[req.user] # Null
        /\ mark[req.user] < resp.last_sync_time)
       => /\ Succeeded(resp')
          /\ resp'.last_sync_time = now
          /\ \A k \in ListKinds : \A n \in DOMAIN req.data[k] :
                req.data[k][n].id \in ListedIds(resp'[k])]_vars

\* C18: every row a request adds to a list table is stored under the id
\* of a record the request carries for that table, for sync and for the
\* create endpoints alike.
C18_StoredUnderClientId ==
    [][\A k \in ListKinds :
          req'.data[k] # <<>>
          => (DOMAIN db'[k]) \ (DOMAIN db[k])
                \subseteq {req'.data[k][n].id : n \in DOMAIN req'.data[k]}]_vars

\* Two requests carry a record of the same kind with the same id.
SameId(a, b) ==
    \E k \in ListKinds :
        \E i \in DOMAIN calls[a].data[k] : \E j \in DOMAIN calls[b].data[k] :
            calls[a].data[k][i].id = calls[b].data[k][j].id

\* C14: of two sync requests of one tenant that are in flight together
\* and carry a record with the same id, neither ends with a conflict: run
\* one after the other, the second updates the row the first inserted.
C14_NeitherFailsFromInterleaving ==
    \A a \in Calls : \A b \in Calls \ {a} :
        (/\ calls[a].pc = "done"
         /\ calls[b].pc # "idle"
         /\ calls[a].user = calls[b].user
         /\ SameId(a, b))
        => calls[a].result.status # HTTP_409_CONFLICT

Position(order, kind) == CHOOSE i \in DOMAIN order : order[i] = kind

\* Every request runs its merge statements kind by kind in the given order
\* and starts its reads only after all of them.
InOrder(order) ==
    \A c \in Calls :
        /\ \A i \in DOMAIN calls[c].log : \A j \in DOMAIN calls[c].log :
              i < j => Position(order, calls[c].log[i])
                          <= Position(order, calls[c].log[j])
        /\ (calls[c].pc = "read" \/ calls[c].reads > 0)
              => Len(calls[c].log) = NumStatements(calls[c].data)

\* C19 as stated: within one sync request the merge steps run in the
\* order products, categories, suppliers, sales, purchases, adjustments,
\* activities, settings, and the collecting reads follow them.
C19_MergesProductsFirst ==
    InOrder(<<"products", "categories", "suppliers", "sales", "purchases",
              "adjustments", "activities", "settings">>)

\* C19 amended: within one sync request the merge steps run in the order
\* categories, activities, products, suppliers, sales, purchases,
\* adjustments, settings, and the collecting reads follow them; no write to
\* a kind later in this order happens before all writes to the kinds
\* earlier in it.
C19_MergesCategoriesFirst ==
    InOrder(<<"categories", "activities", "products", "suppliers", "sales",
              "purchases", "adjustments", "settings">>)

\* A request that merged four kinds and answered.
C19_Witness ==
    \E c \in Calls :
        /\ calls[c].pc = "done"
        /\ Succeeded(calls[c].result)
        /\ calls[c].log = <<"categories", "activities", "products", "settings">>

\* C21: the reads of a sync come after its merge, so for each record the
\* request wrote the response carries the row as this request stored it.
C21_ResponseCarriesWhatWasWritten ==
    [][(/\ req'.op = "sync"
        /\ Validates(req'.data)
        /\ Merge(db, req'.user, req'.data, now).error = NoError)
       => \A k \in ListKinds : \A n \in DOMAIN req'.data[k] :
             LET r == req'.data[k][n]
             IN /\ Succeeded(resp')
                /\ \E m \in DOMAIN resp'[k] :
                      /\ resp'[k][m].id = r.id
                      /\ k \in ReturnedKinds
                            => resp'[k][m] = Returned(k, db'[k][r.id])]_vars

\* C22: when sync overwrites a sale or a purchase the tenant holds, the
\* line items stored afterwards are the incoming list, item for item and in
\* its order; nothing of the list stored before remains.
C22_ItemsReplacedWhole ==
    \A k \in {"sales", "purchases"} : \A n \in DOMAIN req.data[k] :
        LET r == req.data[k][n]
        IN (req.op = "sync" /\ Existing(attempt.db[k], r.id, req.user))
           => json_loads(db[k][r.id].items) = r.items

\* A sale of two items was overwritten with a list of one other item.
C22_Witness ==
    /\ req.op = "sync"
    /\ req.data.sales # <<>>
    /\ LET r == req.data.sales[1]
       IN /\ Existing(attempt.db.sales, r.id, req.user)
          /\ Len(json_loads(attempt.db.sales[r.id].items)) = 2
          /\ Len(r.items) = 1
          /\ \A m \in 1..2 :
                json_loads(attempt.db.sales[r.id].items)[m] # r.items[1]

\* C23: syncing an activity never ends with a duplicate-key error; an
\* activity whose id no row holds is inserted for the caller's tenant, and
\* one whose id a row of the caller's tenant holds is updated in place so
\* that date, activity, username and details are those of the incoming
\* record.
C23_ActivityInsertedOrUpdatedInPlace ==
    [][(req'.op = "sync" /\ Validates(req'.data))
       => \A n \in DOMAIN req'.data.activities :
             LET a == req'.data.activities[n]
             IN /\ resp'.status # HTTP_409_CONFLICT
                /\ ~Has(db.activities, a.id)
                      => Existing(db'.activities, a.id, req'.user)
                /\ Existing(db.activities, a.id, req'.user)
                      => /\ db'.activities[a.id].date =
                               make_timezone_naive(a.date)
                         /\ db'.activities[a.id].activity = a.activity
                         /\ db'.activities[a.id].username = a.username
                         /\ db'.activities[a.id].details = a.details]_vars

\* C24: in every sync response each of the seven record lists is in
\* ascending order of id.
C24_ListsAscendingById ==
    Succeeded(resp)
    => \A k \in ListKinds : \A i \in DOMAIN resp[k] : \A j \in DOMAIN resp[k] :
          i < j => resp[k][i].id < resp[k][j].id

\* C25: over any sequence of operations the modification marker of a
\* stored record never decreases.
C25_MarkerNeverDecreases ==
    [][/\ \A k \in MarkedKinds : \A i \in DOMAIN db[k] :
             Has(db'[k], i) => Marker(k, db'[k][i]) >= Marker(k, db[k][i])
       /\ \A t \in DOMAIN db.settings :
             Has(db'.settings, t)
             => db'.settings[t].updated_at >= db.settings[t].updated_at]_vars

\* C26: every record a sync response or a list endpoint returns has the
\* caller as its owner.
C26_ResponseHoldsCallersRowsOnly ==
    (req.op \in {"sync", "list"} /\ Succeeded(resp))
    => /\ \A k \in ListKinds : \A n \in DOMAIN resp[k] :
             resp[k][n].user_id = req.user
       /\ \A n \in DOMAIN resp.settings : resp.settings[n].user_id = req.user

\* A list endpoint returned rows of a kind of which another tenant holds
\* rows too.
C26_Witness ==
    /\ req.op = "list"
    /\ Succeeded(resp)
    /\ \E k \in ListKinds :
          /\ resp[k] # <<>>
          /\ \E t \in Users \ {req.user} : Owned(db[k], t) # {}

\* C27: the user_id inside a payload record never decides ownership: every
\* row sync inserts has the caller as its owner, whatever owner the record
\* names, and sync never changes the owner of a row that exists.
C27_OwnerIsTheCaller ==
    [][req'.op = "sync"
       => /\ \A k \in ListKinds : \A i \in DOMAIN db'[k] :
                db'[k][i].user_id = IF Has(db[k], i) THEN db[k][i].user_id
                                    ELSE req'.user
          /\ \A t \in DOMAIN db'.settings :
                /\ db'.settings[t].user_id = t
                /\ Has(db.settings, t) \/ t = req'.user]_vars

\* A sync inserted a row whose record named another tenant as the owner.
C27_Witness ==
    /\ req.op = "sync"
    /\ Succeeded(resp)
    /\ \E k \in ListKinds : \E n \in DOMAIN req.data[k] :
          /\ req.data[k][n].user_id \in Users \ {req.user}
          /\ ~Has(attempt.db[k], req.data[k][n].id)
          /\ Existing(db[k], req.data[k][n].id, req.user)

\* C28: sync removes no record: every tenant holds after a sync every id
\* it held before, and a row of the caller that a full sync leaves out of
\* its payload is returned again.
C28_NothingRemovedAndReturnedAgain ==
    [][req'.op = "sync"
       => /\ \A t \in Users : \A k \in ListKinds :
                {r.id : r \in Owned(db[k], t)}
                   \subseteq {r.id : r \in Owned(db'[k], t)}
          /\ (/\ Validates(req'.data)
              /\ req'.data.last_sync_time = Null
              /\ Merge(db, req'.user, req'.data, now).error = NoError)
             => \A k \in ListKinds : \A r \in Owned(db[k], req'.user) :
                   r.id \notin ListedIds(req'.data[k])
                   => Succeeded(resp') /\ r.id \in ListedIds(resp'[k])]_vars

\* C29: in every state, also after sync has inserted products under ids
\* the clients chose, POST /products with a product the table accepts stores
\* a new product row, under an id no product row used before.
C29_CreateStoresUnderFreshId ==
    [][(/\ req'.op = "create"
        /\ req'.data.products # <<>>
        /\ Null \notin {req'.data.products[1].purchase_price,
                        req'.data.products[1].selling_price,
                        req'.data.products[1].reorder_level})
       => (DOMAIN db'.products) \ (DOMAIN db.products) # {}]_vars

\* C30: a create endpoint is all-or-nothing with its activity-log entry:
\* once the request has ended, the new record and its activity row both
\* exist or neither does.
C30_RecordAndActivityTogether ==
    [][req'.op = "create"
       => \A k \in ListKinds \ {"activities"} :
             req'.data[k] # <<>>
             => ((DOMAIN db'[k]) \ (DOMAIN db[k]) # {}
                 <=> (DOMAIN db'.activities) \ (DOMAIN db.activities) # {})]_vars

\* C31: a signup that answers with an error for an email that was not
\* registered before it leaves no users row with that email and no settings
\* row behind.
C31_FailedSignupLeavesNothing ==
    [][(/\ req'.op = "signup"
        /\ ~Succeeded(resp')
        /\ req'.user \notin Registered(users))
       => /\ req'.user \notin Registered(users')
          /\ DOMAIN db'.settings = DOMAIN db.settings]_vars

\* C32: a run of startup keeps every users row, adds the admin only when
\* no row has its email, and leaves the eight inventory tables empty,
\* whatever was stored before.
C32_StartupKeepsUsersAndEmptiesTables ==
    [][req'.op = "startup"
       => /\ users' = IF \E i \in DOMAIN users : users[i] = AdminEmail
                      THEN users
                      ELSE users \o <<AdminEmail>>
          /\ \A k \in ListKinds : DOMAIN db'[k] = {}
          /\ DOMAIN db'.settings = {}]_vars

\* startup ran right after a sync had returned the activity and the
\* settings row of a user who signed up, and the tables are empty.
C32_Witness ==
    /\ req.op = "startup"
    /\ Succeeded(resp)
    /\ resp.activities # <<>>
    /\ resp.settings # <<>>
    /\ Len(users) > 1
    /\ db = EmptyDb

====
